---------------------------- MODULE Spec2Model ----------------------------
(***************************************************************************)
(* Smartclass back end (src/server.js): an Express router over Mongoose    *)
(* collections.  The file holds two variants of the server: the first      *)
(* (lines 1-238) gates /signup behind verifyToken, the second (lines       *)
(* 239-524) has a public /signup that lower-cases the email and seeds two  *)
(* demo accounts at start-up.  Both are modelled; `variant` says which one *)
(* is running.                                                             *)
(*                                                                         *)
(* Strings the code inspects character by character (emails, faculty       *)
(* names, passwords) are sequences of one-character strings.  Strings the  *)
(* code only compares (grades, days, roles, ...) are TLA+ strings.         *)
(***************************************************************************)
EXTENDS Naturals, Sequences, FiniteSets

VARIABLES
  variant,    \* which of the two servers of src/server.js runs
  nextId,     \* number of ObjectIds generated so far, plus one
  users,      \* User collection:        id -> [role, name, email, password]
  faculty,    \* Faculty collection:     id -> [name]
  schedules,  \* Schedule collection:    id -> [grade, subject, faculty, classroom, day, time]
  swaps,      \* Swap(Request) collection: id -> [fromFaculty, toFaculty, grade, day, time, status]
  others,     \* Grade, Classroom, Lab, Subject, Leave, Feedback: name -> (id -> body)
  tokens,     \* roles carried by the JWTs issued so far
  seed,       \* seedDefaultAccounts: its position and its two findOne results
  reqs,       \* requests in flight (between two awaits): process -> record
  last        \* the last request that completed: [op, req, res], and the
              \* store before its last step (pre)

vars == <<variant, nextId, users, faculty, schedules, swaps, others, tokens,
          seed, reqs, last>>

store == [users |-> users, faculty |-> faculty, schedules |-> schedules,
          swaps |-> swaps, others |-> others]

(***************************************************************************)
(* Bounds of the model.                                                    *)
(***************************************************************************)
MaxId == 3          \* ObjectIds generated in one behaviour
MaxList == 2        \* entries in one POST /schedules body
NumSalts == 1       \* distinct bcrypt salts
NumProcs == 2       \* requests in flight at once

(***************************************************************************)
(* JavaScript strings.                                                     *)
(***************************************************************************)
LowerLetters == <<"a","b","c","d","e","f","g","h","i","j","k","l","m",
                  "n","o","p","q","r","s","t","u","v","w","x","y","z">>
UpperLetters == <<"A","B","C","D","E","F","G","H","I","J","K","L","M",
                  "N","O","P","Q","R","S","T","U","V","W","X","Y","Z">>

ToLowerChar(c) ==
  IF \E i \in DOMAIN UpperLetters : UpperLetters[i] = c
    THEN LowerLetters[CHOOSE i \in DOMAIN UpperLetters : UpperLetters[i] = c]
    ELSE c

ToUpperChar(c) ==
  IF \E i \in DOMAIN LowerLetters : LowerLetters[i] = c
    THEN UpperLetters[CHOOSE i \in DOMAIN LowerLetters : LowerLetters[i] = c]
    ELSE c

toLowerCase(s) == [i \in 1..Len(s) |-> ToLowerChar(s[i])]
toUpperCase(s) == [i \in 1..Len(s) |-> ToUpperChar(s[i])]

RECURSIVE TrimStart(_)
TrimStart(s) == IF s # <<>> /\ Head(s) = " " THEN TrimStart(Tail(s)) ELSE s

RECURSIVE TrimEnd(_)
TrimEnd(s) ==
  IF s # <<>> /\ s[Len(s)] = " " THEN TrimEnd(SubSeq(s, 1, Len(s) - 1)) ELSE s

trim(s) == TrimEnd(TrimStart(s))

\* s.charAt(0): the first character as a string, "" for the empty string
charAt0(s) == IF s = <<>> THEN <<>> ELSE <<Head(s)>>

\* "^" + email + "$" is no regular expression: an unterminated group (the
\* model's strings hold no ")"), or a "*" with nothing to repeat
RegexSyntaxError(p) ==
  \/ \E i \in DOMAIN p : p[i] = "("
  \/ \E i \in DOMAIN p : p[i] = "*" /\ (i = 1 \/ p[i - 1] = "*")

\* one pattern character against one character, under the "i" flag
RegexCharMatch(pc, c) == pc = "." \/ ToLowerChar(pc) = ToLowerChar(c)

\* new RegExp("^" + p + "$", "i").test(s), for patterns of literal
\* characters, "." and "x*"
RECURSIVE RegexTest(_, _)
RegexTest(p, s) ==
  IF p = <<>> THEN s = <<>>
  ELSE IF Len(p) >= 2 /\ p[2] = "*"
    THEN \/ RegexTest(SubSeq(p, 3, Len(p)), s)
         \/ s # <<>> /\ RegexCharMatch(p[1], s[1]) /\ RegexTest(p, Tail(s))
    ELSE s # <<>> /\ RegexCharMatch(p[1], s[1]) /\ RegexTest(Tail(p), Tail(s))

(***************************************************************************)
(* Mongoose collections: functions from ObjectId to document.  ObjectIds   *)
(* are the positive naturals, in generation order; 0 stands for an :id     *)
(* path parameter that is no ObjectId (the cast of the query fails).       *)
(***************************************************************************)
IsObjectId(id) == id \in Nat \ {0}

Empty == [i \in {} |-> {}]

Restrict(coll, S) == [i \in S |-> coll[i]]

\* new Model(body).save() with a fresh _id
Save(coll, id, doc) ==
  [i \in DOMAIN coll \cup {id} |-> IF i = id THEN doc ELSE coll[i]]

\* a delete that falls back to the oldest document when the id matches none
findOneAndDeleteAny(coll, id) ==
  IF id \in DOMAIN coll \/ coll = <<>> THEN Restrict(coll, DOMAIN coll \ {id})
  ELSE Restrict(coll, DOMAIN coll \ {CHOOSE i \in DOMAIN coll : \A j \in DOMAIN coll : i <= j})

\* Model.findByIdAndDelete(id): the collection without the document
findByIdAndDelete(coll, id) == Restrict(coll, DOMAIN coll \ {id})

\* Model.findById...: the document found, or null
Null == [null |-> TRUE]
findById(coll, id) == IF id \in DOMAIN coll THEN coll[id] ELSE Null

\* Model.findByIdAndUpdate(id, update): the collection with the fields set
findByIdAndUpdate(coll, id, update) ==
  [i \in DOMAIN coll |->
     IF i = id
       THEN [f \in DOMAIN coll[i] |->
               IF f \in DOMAIN update THEN update[f] ELSE coll[i][f]]
       ELSE coll[i]]

(***************************************************************************)
(* Responses.  status 0: the handler's promise rejected with nobody        *)
(* catching it, so no response was written.                                *)
(***************************************************************************)
Json(body) == [status |-> 200, body |-> body]
Status(code, message) == [status |-> code, body |-> [message |-> message]]
Unhandled(error) == [status |-> 0, body |-> [error |-> error]]

Done(op, req, res) == last' = [op |-> op, req |-> req, pre |-> store, res |-> res]

(***************************************************************************)
(* Timetable: POST /schedules, PUT/DELETE /schedules/:id, DELETE /schedules *)
(***************************************************************************)
VariantGated == "gated-signup"      \* lines 1-238
VariantPublic == "public-signup"    \* lines 239-524

\* Schedule.deleteMany({grade: g})
deleteManyByGrade(coll, g) ==
  Restrict(coll, {i \in DOMAIN coll : coll[i].grade # g})

\* Schedule.insertMany(list): one fresh _id per element, in order
insertMany(coll, list, first) ==
  [i \in DOMAIN coll \cup (first..(first + Len(list) - 1)) |->
     IF i \in DOMAIN coll THEN coll[i] ELSE list[i - first + 1]]

PostSchedules(g, list) ==
  /\ nextId + Len(list) - 1 <= MaxId
  /\ schedules' = insertMany(deleteManyByGrade(schedules, g), list, nextId)
  /\ nextId' = nextId + Len(list)
  /\ Done("POST /schedules", [grade |-> g, schedules |-> list],
          Json(insertMany(Empty, list, nextId)))
  /\ UNCHANGED <<variant, users, faculty, swaps, others, tokens, seed, reqs>>

DeleteAllSchedules ==
  /\ schedules' = Empty
  /\ Done("DELETE /schedules", [all |-> TRUE],
          Json([message |-> "All schedules deleted"]))
  /\ UNCHANGED <<variant, nextId, users, faculty, swaps, others, tokens, seed, reqs>>

(***************************************************************************)
(* Swap requests                                                           *)
(***************************************************************************)
\* new Swap(req.body): status defaults to "pending" when the body has none
NewSwap(body) ==
  [fromFaculty |-> body.fromFaculty, toFaculty |-> body.toFaculty,
   grade |-> body.grade, day |-> body.day, time |-> body.time,
   status |-> IF body.status = "" THEN "pending" ELSE body.status]

PostSwap(body) ==
  /\ nextId <= MaxId
  /\ swaps' = Save(swaps, nextId, NewSwap(body))
  /\ nextId' = nextId + 1
  /\ Done("POST /swaps", body, Json(NewSwap(body)))
  /\ UNCHANGED <<variant, users, faculty, schedules, others, tokens, seed, reqs>>

\* the filter of Schedule.findOneAndUpdate in the approve handler
SwapMatches(coll, swap) ==
  {i \in DOMAIN coll :
     /\ coll[i].grade = swap.grade
     /\ coll[i].day = swap.day
     /\ coll[i].time = swap.time
     /\ coll[i].faculty = swap.fromFaculty}

\* the approval rewriting every match: Schedule.updateMany for findOneAndUpdate
updateManyFaculty(coll, swap) ==
  [i \in DOMAIN coll |->
     IF i \in SwapMatches(coll, swap)
       THEN [coll[i] EXCEPT !.faculty = swap.toFaculty] ELSE coll[i]]

\* Schedule.findOneAndUpdate(filter, {faculty: toFaculty}): the first match
\* in natural (insertion) order is updated, nothing when there is none
findOneAndUpdateFaculty(coll, swap) ==
  LET m == SwapMatches(coll, swap)
  IN  IF m = {} THEN coll
      ELSE findByIdAndUpdate(coll, CHOOSE i \in m : \A j \in m : i <= j,
                             [faculty |-> swap.toFaculty])

ApproveSwap(id) ==
  LET updated == findByIdAndUpdate(swaps, id, [status |-> "approved"])
      swap == findById(updated, id)
  IN  /\ swaps' = IF IsObjectId(id) THEN updated ELSE swaps
      /\ IF ~IsObjectId(id)
           THEN /\ UNCHANGED schedules
                /\ Done("PUT /swaps/:id/approve", [id |-> id], Unhandled("CastError"))
           ELSE IF swap = Null
           THEN \* swap.toFaculty on null throws a TypeError
                /\ UNCHANGED schedules
                /\ Done("PUT /swaps/:id/approve", [id |-> id], Unhandled("TypeError"))
           ELSE /\ schedules' = IF swap.toFaculty # ""
                                  THEN findOneAndUpdateFaculty(schedules, swap)
                                  ELSE schedules
                /\ Done("PUT /swaps/:id/approve", [id |-> id], Json(swap))
      /\ UNCHANGED <<variant, nextId, users, faculty, others, tokens, seed, reqs>>

\* a rejection that also undoes the substitution an approval made
RejectSwapReverting(id) ==
  LET updated == findByIdAndUpdate(swaps, id, [status |-> "rejected"])
      swap == findById(swaps, id)
  IN  /\ swaps' = IF IsObjectId(id) THEN updated ELSE swaps
      /\ schedules' =
           IF swap # Null /\ swap.status = "approved"
             THEN [i \in DOMAIN schedules |->
                     IF /\ schedules[i].grade = swap.grade
                        /\ schedules[i].day = swap.day
                        /\ schedules[i].time = swap.time
                        /\ schedules[i].faculty = swap.toFaculty
                       THEN [schedules[i] EXCEPT !.faculty = swap.fromFaculty]
                       ELSE schedules[i]]
             ELSE schedules
      /\ Done("PUT /swaps/:id/reject", [id |-> id],
              IF IsObjectId(id) THEN Json(findById(updated, id))
                                ELSE Unhandled("CastError"))
      /\ UNCHANGED <<variant, nextId, users, faculty, others, tokens, seed, reqs>>

RejectSwap(id) ==
  LET updated == findByIdAndUpdate(swaps, id, [status |-> "rejected"])
  IN  /\ swaps' = IF IsObjectId(id) THEN updated ELSE swaps
      /\ Done("PUT /swaps/:id/reject", [id |-> id],
              IF IsObjectId(id) THEN Json(findById(updated, id))
                                ELSE Unhandled("CastError"))
      /\ UNCHANGED <<variant, nextId, users, faculty, schedules, others, tokens, seed, reqs>>

\* routes of the form DELETE /<entity>/:id, per variant
DeleteRoutes(v) ==
  IF v = VariantGated
    THEN {"faculty", "swaps", "leaves"}
    ELSE {"faculty", "grades", "classrooms", "labs", "subjects", "schedules",
          "swaps", "feedback"}

\* routes of the form PUT /<entity>/:id with the body as the update
PutRoutes(v) ==
  IF v = VariantGated THEN {"leaves"}
                      ELSE {"faculty", "grades", "subjects", "schedules"}

\* routes of the form POST /<entity> that save the body as one document
PostRoutes(v) ==
  IF v = VariantGated
    THEN {"faculty", "grades", "classrooms", "labs", "subjects", "leaves", "feedback"}
    ELSE {"faculty", "grades", "classrooms", "labs", "subjects", "feedback"}

OtherColls == {"grades", "classrooms", "labs", "subjects", "leaves", "feedback"}

Collection(c) ==
  CASE c = "faculty" -> faculty
    [] c = "schedules" -> schedules
    [] c = "swaps" -> swaps
    [] OTHER -> others[c]

\* the five collection variables after collection c became `new`
SetCollection(c, new) ==
  /\ faculty' = IF c = "faculty" THEN new ELSE faculty
  /\ schedules' = IF c = "schedules" THEN new ELSE schedules
  /\ swaps' = IF c = "swaps" THEN new ELSE swaps
  /\ others' = IF c \in OtherColls THEN [others EXCEPT ![c] = new] ELSE others

\* app.post("/<entity>"): res.json(await new Model(req.body).save())
PostDoc(c, body) ==
  /\ c \in PostRoutes(variant)
  /\ nextId <= MaxId
  /\ SetCollection(c, Save(Collection(c), nextId, body))
  /\ nextId' = nextId + 1
  /\ Done("POST /:entity", [entity |-> c, body |-> body], Json(body))
  /\ UNCHANGED <<variant, users, tokens, seed, reqs>>

\* app.put("/<entity>/:id"): res.json(await Model.findByIdAndUpdate(id, body, {new:true}))
PutDoc(c, id, body) ==
  /\ c \in PutRoutes(variant)
  /\ IF IsObjectId(id)
       THEN /\ SetCollection(c, findByIdAndUpdate(Collection(c), id, body))
            /\ Done("PUT /:entity/:id", [entity |-> c, id |-> id, body |-> body],
                    Json(findById(findByIdAndUpdate(Collection(c), id, body), id)))
       ELSE /\ UNCHANGED <<faculty, schedules, swaps, others>>
            /\ Done("PUT /:entity/:id", [entity |-> c, id |-> id, body |-> body],
                    Unhandled("CastError"))
  /\ UNCHANGED <<variant, nextId, users, tokens, seed, reqs>>

\* app.delete("/<entity>/:id"): res.json(await Model.findByIdAndDelete(id))
DeleteDoc(c, id) ==
  /\ c \in DeleteRoutes(variant)
  /\ IF IsObjectId(id)
       THEN /\ SetCollection(c, findByIdAndDelete(Collection(c), id))
            /\ Done("DELETE /:entity/:id", [entity |-> c, id |-> id],
                    Json(findById(Collection(c), id)))
       ELSE /\ UNCHANGED <<faculty, schedules, swaps, others>>
            /\ Done("DELETE /:entity/:id", [entity |-> c, id |-> id],
                    Unhandled("CastError"))
  /\ UNCHANGED <<variant, nextId, users, tokens, seed, reqs>>

(***************************************************************************)
(* Credentials: bcrypt, the unique index on User.email, signup, login      *)
(***************************************************************************)
\* bcrypt.hashSync(password, 8) with the salt it drew
hashSync(password, salt) ==
  [alg |-> "bcrypt", rounds |-> 8, salt |-> salt, digest |-> <<salt, password>>]

\* bcrypt.compareSync(password, hash): re-hash with the salt of the hash
compareSync(password, hash) == hashSync(password, hash.salt) = hash

\* the unique index of userSchema.email: a save with a stored email fails (E11000)
DuplicateKey(coll, email) == \E i \in DOMAIN coll : coll[i].email = email

\* User.findOne({email: e}): the ids that match (at most one, by the index)
findByEmail(coll, email) == {i \in DOMAIN coll : coll[i].email = email}

\* User.findOne({email, role})
findByEmailRole(coll, email, role) ==
  {i \in DOMAIN coll : coll[i].email = email /\ coll[i].role = role}

\* the email the public signup looks up and stores
NormalizedEmail(email) == toLowerCase(email)

\* the public signup's !role || !name || !email || !password
SignupFieldMissing(body) ==
  body.role = "" \/ body.name = "" \/ body.email = <<>> \/ body.password = <<>>

NewUser(role, name, email, password, salt) ==
  [role |-> role, name |-> name, email |-> email,
   password |-> hashSync(password, salt)]

\* a save into a collection whose unique index on email was never built
SaveUserNoIndex(coll, id, user) == Save(coll, id, user)

\* await user.save() of either signup and of the seeding, on `coll`
SaveUser(coll, id, user) ==
  IF DuplicateKey(coll, user.email) THEN coll ELSE Save(coll, id, user)

\* app.post("/signup") of the second variant, with nothing interleaved
SignupPublic(body, salt) ==
  LET email == NormalizedEmail(body.email)
      user == NewUser(body.role, body.name, email, body.password, salt)
  IN  /\ variant = VariantPublic
      /\ IF SignupFieldMissing(body)
           THEN /\ UNCHANGED <<users, nextId>>
                /\ Done("POST /signup", body, Status(400, "All fields required"))
           ELSE IF findByEmail(users, email) # {}
           THEN /\ UNCHANGED <<users, nextId>>
                /\ Done("POST /signup", body, Status(400, "User already exists"))
           ELSE /\ nextId <= MaxId
                /\ users' = SaveUser(users, nextId, user)
                /\ nextId' = nextId + 1
                /\ Done("POST /signup", body,
                        IF DuplicateKey(users, email)
                          THEN Status(500, "Server error")
                          ELSE Json([message |-> "Signup successful"]))
      /\ UNCHANGED <<variant, faculty, schedules, swaps, others, tokens, seed, reqs>>

\* verifyToken of the first variant: auth is "" (no header), "invalid" (a
\* token jwt.verify rejects) or the role of an issued token
verifyToken(auth) ==
  IF auth = "" THEN Status(401, "No token")
  ELSE IF auth \notin tokens THEN Status(401, "Invalid token")
  ELSE Json([role |-> auth])

\* app.post("/signup", verifyToken, ...) of the first variant
SignupGated(auth, body, salt) ==
  LET user == NewUser(body.role, body.name, body.email, body.password, salt)
      req == [auth |-> auth, role |-> body.role, name |-> body.name,
              email |-> body.email, password |-> body.password]
  IN  /\ variant = VariantGated
      /\ IF verifyToken(auth).status # 200
           THEN /\ UNCHANGED <<users, nextId>>
                /\ Done("POST /signup", req, verifyToken(auth))
           ELSE IF auth # "admin"
           THEN /\ UNCHANGED <<users, nextId>>
                /\ Done("POST /signup", req, Status(403, "Only admin allowed"))
           ELSE /\ nextId <= MaxId
                /\ users' = SaveUser(users, nextId, user)
                /\ nextId' = nextId + 1
                /\ Done("POST /signup", req,
                        IF DuplicateKey(users, body.email)
                          THEN Unhandled("E11000")
                          ELSE Json([message |-> "User created"]))
      /\ UNCHANGED <<variant, faculty, schedules, swaps, others, tokens, seed, reqs>>

\* Faculty.findOne({name: {$regex: /^email$/i}}): the ids that match
findFacultyByName(coll, email) ==
  {i \in DOMAIN coll : RegexTest(email, coll[i].name)}

\* faculty.name.trim().charAt(0).toUpperCase() + "1234"
correctPassword(name) == toUpperCase(charAt0(trim(name))) \o <<"1", "2", "3", "4">>

\* the teacher branch of app.post("/login"); f is the document findOne returned
TeacherLogin(body) ==
  LET found == findFacultyByName(faculty, body.email)
      f == faculty[CHOOSE i \in found : \A j \in found : i <= j]
  IN  IF RegexSyntaxError(body.email)
        THEN IF variant = VariantPublic THEN Status(500, "Server error")
                                        ELSE Unhandled("SyntaxError")
      ELSE IF found = {} THEN Status(400, "Faculty not found")
      ELSE IF body.password # correctPassword(f.name)
        THEN Status(400, "Invalid password")
      ELSE Json([token |-> [role |-> "teacher", name |-> f.name],
                 role |-> "teacher", name |-> f.name])

\* the student and admin branch of app.post("/login")
UserLogin(body) ==
  LET found == findByEmailRole(users, body.email, body.role)
      user == users[CHOOSE i \in found : TRUE]
  IN  IF found = {} THEN Status(400, "Invalid credentials")
      ELSE IF ~compareSync(body.password, user.password)
        THEN Status(400, "Invalid credentials")
      ELSE Json([token |-> [role |-> user.role, name |-> user.name],
                 role |-> user.role, name |-> user.name])

LoginResponse(body) ==
  IF variant = VariantPublic
       /\ (body.role = "" \/ body.email = <<>> \/ body.password = <<>>)
    THEN Status(400, "Missing required fields")
  ELSE IF body.role = "teacher" THEN TeacherLogin(body)
  ELSE UserLogin(body)

\* app.post("/login")
Login(body) ==
  /\ tokens' = IF LoginResponse(body).status = 200
                 THEN tokens \cup {LoginResponse(body).body.role}
                 ELSE tokens
  /\ Done("POST /login", body, LoginResponse(body))
  /\ UNCHANGED <<variant, nextId, users, faculty, schedules, swaps, others, seed, reqs>>

\* the two demo accounts of seedDefaultAccounts
demoStudentEmail == <<"s","t","u","d","e","n","t","@","s","m","a","r","t","c","l","a","s","s",".","c","o","m">>
demoAdminEmail == <<"a","d","m","i","n","@","s","m","a","r","t","c","l","a","s","s",".","c","o","m">>
demoStudentPassword == <<"V","i","g","n","a","n">>
demoAdminPassword == <<"V","i","g","n","a","n","f","a","c","u","l","t","y">>

DemoStudent(salt) ==
  NewUser("student", "Demo Student", demoStudentEmail, demoStudentPassword, salt)
DemoAdmin(salt) ==
  NewUser("admin", "Demo Admin", demoAdminEmail, demoAdminPassword, salt)

\* seedDefaultAccounts, run from start to end with nothing interleaved
SeedDefaultAccounts(saltS, saltA) ==
  LET needS == findByEmail(users, demoStudentEmail) = {}
      users1 == IF needS THEN SaveUser(users, nextId, DemoStudent(saltS)) ELSE users
      id1 == IF needS THEN nextId + 1 ELSE nextId
      needA == findByEmail(users1, demoAdminEmail) = {}
      users2 == IF needA THEN SaveUser(users1, id1, DemoAdmin(saltA)) ELSE users1
      id2 == IF needA THEN id1 + 1 ELSE id1
  IN  /\ seed.pc = "findStudent"
      /\ id2 - 1 <= MaxId
      /\ users' = users2
      /\ nextId' = id2
      /\ seed' = [pc |-> "done"]
      /\ Done("seedDefaultAccounts", Null, Null)
      /\ UNCHANGED <<variant, faculty, schedules, swaps, others, tokens, reqs>>

(***************************************************************************)
(* The same handlers one await at a time: every await of a handler is a    *)
(* point where another request, or the seeding, may run.                   *)
(***************************************************************************)
Procs == 1..NumProcs
Idle == [pc |-> "idle"]

\* const s = await User.findOne({email: demoStudentEmail})
SeedFindStudent ==
  /\ seed.pc = "findStudent"
  /\ seed' = [pc |-> IF findByEmail(users, demoStudentEmail) = {}
                       THEN "saveStudent" ELSE "findAdmin"]
  /\ UNCHANGED <<variant, nextId, users, faculty, schedules, swaps, others,
                 tokens, reqs, last>>

\* await new User({... demoStudentEmail ...}).save(); a rejection ends the seeding
SeedSaveStudent(salt) ==
  /\ seed.pc = "saveStudent"
  /\ nextId <= MaxId
  /\ users' = SaveUser(users, nextId, DemoStudent(salt))
  /\ nextId' = nextId + 1
  /\ seed' = [pc |-> IF DuplicateKey(users, demoStudentEmail)
                       THEN "failed" ELSE "findAdmin"]
  /\ UNCHANGED <<variant, faculty, schedules, swaps, others, tokens, reqs, last>>

\* const a = await User.findOne({email: demoAdminEmail})
SeedFindAdmin ==
  /\ seed.pc = "findAdmin"
  /\ seed' = [pc |-> IF findByEmail(users, demoAdminEmail) = {}
                       THEN "saveAdmin" ELSE "done"]
  /\ UNCHANGED <<variant, nextId, users, faculty, schedules, swaps, others,
                 tokens, reqs, last>>

\* await new User({... demoAdminEmail ...}).save()
SeedSaveAdmin(salt) ==
  /\ seed.pc = "saveAdmin"
  /\ nextId <= MaxId
  /\ users' = SaveUser(users, nextId, DemoAdmin(salt))
  /\ nextId' = nextId + 1
  /\ seed' = [pc |-> IF DuplicateKey(users, demoAdminEmail)
                       THEN "failed" ELSE "done"]
  /\ UNCHANGED <<variant, faculty, schedules, swaps, others, tokens, reqs, last>>

\* public signup up to `await User.findOne({email: normalizedEmail})`
SignupFind(p, body) ==
  LET email == NormalizedEmail(body.email)
  IN  /\ variant = VariantPublic
      /\ reqs[p] = Idle
      /\ IF SignupFieldMissing(body)
           THEN /\ UNCHANGED reqs
                /\ Done("POST /signup", body, Status(400, "All fields required"))
           ELSE IF findByEmail(users, email) # {}
           THEN /\ UNCHANGED reqs
                /\ Done("POST /signup", body, Status(400, "User already exists"))
           ELSE /\ reqs' = [reqs EXCEPT ![p] = [pc |-> "signup:save", body |-> body]]
                /\ UNCHANGED last
      /\ UNCHANGED <<variant, nextId, users, faculty, schedules, swaps, others,
                     tokens, seed>>

\* public signup from `await user.save()` to the response
SignupSave(p, salt) ==
  LET body == reqs[p].body
      email == NormalizedEmail(body.email)
      user == NewUser(body.role, body.name, email, body.password, salt)
  IN  /\ reqs[p].pc = "signup:save"
      /\ nextId <= MaxId
      /\ users' = SaveUser(users, nextId, user)
      /\ nextId' = nextId + 1
      /\ reqs' = [reqs EXCEPT ![p] = Idle]
      /\ Done("POST /signup", body,
              IF DuplicateKey(users, email)
                THEN Status(500, "Server error")
                ELSE Json([message |-> "Signup successful"]))
      /\ UNCHANGED <<variant, faculty, schedules, swaps, others, tokens, seed>>

\* POST /schedules up to `await Schedule.deleteMany({grade})`
PostSchedulesDelete(p, g, list) ==
  /\ reqs[p] = Idle
  /\ schedules' = deleteManyByGrade(schedules, g)
  /\ reqs' = [reqs EXCEPT ![p] = [pc |-> "schedules:insert", grade |-> g,
                                   schedules |-> list]]
  /\ UNCHANGED <<variant, nextId, users, faculty, swaps, others, tokens, seed, last>>

\* POST /schedules from `await Schedule.insertMany(schedules)` to the response;
\* the request then stays in reqs as "schedules:done" with the ids it inserted
PostSchedulesInsert(p) ==
  LET list == reqs[p].schedules
  IN  /\ reqs[p].pc = "schedules:insert"
      /\ nextId + Len(list) - 1 <= MaxId
      /\ schedules' = insertMany(schedules, list, nextId)
      /\ nextId' = nextId + Len(list)
      /\ reqs' = [reqs EXCEPT ![p] = [pc |-> "schedules:done", grade |-> reqs[p].grade,
                                       schedules |-> list,
                                       inserted |-> nextId..(nextId + Len(list) - 1)]]
      /\ Done("POST /schedules", [grade |-> reqs[p].grade, schedules |-> list],
              Json(insertMany(Empty, list, nextId)))
      /\ UNCHANGED <<variant, users, faculty, swaps, others, tokens, seed>>

(***************************************************************************)
(* Initial state: the server has started on an empty database.  The first  *)
(* variant never seeds and creates accounts only for an admin token, so    *)
(* its database holds the admin account it was set up with.                *)
(***************************************************************************)
Salts == 1..NumSalts

Init ==
  /\ variant \in {VariantGated, VariantPublic}
  /\ users = IF variant = VariantGated THEN <<DemoAdmin(1)>> ELSE Empty
  /\ nextId = IF variant = VariantGated THEN 2 ELSE 1
  /\ faculty = Empty
  /\ schedules = Empty
  /\ swaps = Empty
  /\ others = [c \in OtherColls |-> Empty]
  /\ tokens = {}
  /\ seed = [pc |-> IF variant = VariantPublic THEN "findStudent" ELSE "off"]
  /\ reqs = [p \in Procs |-> Idle]
  /\ last = [op |-> "none", req |-> Null, pre |-> Null, res |-> Null]

(***************************************************************************)
(* Request bodies                                                          *)
(***************************************************************************)
Grades == {"10-A", "10-B"}
FacultyNames == {"Alice", "Bob"}
Days == {"Mon"}
Times == {"9am"}
Subjects == {"Math"}
Classrooms == {"R1"}

ScheduleEntries ==
  [grade : Grades, subject : Subjects, faculty : FacultyNames,
   classroom : Classrooms, day : Days, time : Times]

Lists(S) == UNION {[1..n -> S] : n \in 0..MaxList}

\* swap bodies: status "" is a body without a status
SwapBodies ==
  [fromFaculty : {"Alice"}, toFaculty : {"Bob", ""},
   grade : {"10-A"}, day : Days, time : Times, status : {""}]

PathIds == 0..MaxId

(***************************************************************************)
(* The timetable, one request at a time                                    *)
(***************************************************************************)
NextSchedules ==
  \/ \E g \in Grades, list \in Lists(ScheduleEntries) : PostSchedules(g, list)
  \/ DeleteAllSchedules
  \/ \E id \in PathIds, f \in FacultyNames : PutDoc("schedules", id, [faculty |-> f])
  \/ \E id \in PathIds : DeleteDoc("schedules", id)

SpecSchedules == Init /\ [][NextSchedules]_vars

(***************************************************************************)
(* Swap requests over a timetable, one request at a time                   *)
(***************************************************************************)
NextSwaps ==
  \/ \E g \in {"10-A"}, list \in Lists(ScheduleEntries) : PostSchedules(g, list)
  \/ \E body \in SwapBodies : PostSwap(body)
  \/ \E id \in PathIds : ApproveSwap(id)
  \/ \E id \in PathIds : RejectSwap(id)
  \/ \E id \in PathIds : DeleteDoc("swaps", id)

SpecSwaps == Init /\ [][NextSwaps]_vars

(***************************************************************************)
(* Every collection with its create and delete routes, one request at a    *)
(* time                                                                    *)
(***************************************************************************)
CrudEntry == [grade |-> "10-A", subject |-> "Math", faculty |-> "Alice",
              classroom |-> "R1", day |-> "Mon", time |-> "9am"]
CrudSwap == [fromFaculty |-> "Alice", toFaculty |-> "Bob", grade |-> "10-A",
             day |-> "Mon", time |-> "9am", status |-> ""]
CrudBody(c) == IF c = "faculty" THEN [name |-> <<"B", "o", "b">>] ELSE [name |-> c]

AllColls == {"faculty", "schedules", "swaps"} \cup OtherColls

NextCrud ==
  \/ \E c \in {"faculty"} \cup OtherColls : PostDoc(c, CrudBody(c))
  \/ PostSchedules("10-A", <<CrudEntry>>)
  \/ PostSwap(CrudSwap)
  \/ \E c \in AllColls, id \in PathIds : DeleteDoc(c, id)

SpecCrud == Init /\ [][NextCrud]_vars

(***************************************************************************)
(* Accounts: signup, login of students and admins, seeding, one request at *)
(* a time                                                                  *)
(***************************************************************************)
SignupBodies ==
  [role : {"student", "teacher", ""}, name : {"Ann"},
   email : {<<"a">>, <<"A">>, <<"a", "B">>, <<>>},
   password : {<<"p">>}]

UserLoginBodies ==
  [role : {"student"}, email : {<<"a">>, <<"A">>, <<"a", "B">>},
   password : {<<"p">>, <<"q">>}]
    \cup {[role |-> "admin", email |-> demoAdminEmail, password |-> demoAdminPassword]}

Auths == {"", "invalid", "admin", "student"}

NextAuth ==
  \/ \E body \in SignupBodies, salt \in Salts : SignupPublic(body, salt)
  \/ \E auth \in Auths, body \in SignupBodies, salt \in Salts :
       SignupGated(auth, body, salt)
  \/ \E body \in UserLoginBodies : Login(body)
  \/ \E saltS \in Salts, saltA \in Salts : SeedDefaultAccounts(saltS, saltA)

SpecAuth == Init /\ [][NextAuth]_vars

(***************************************************************************)
(* Teachers: the Faculty collection and the teacher login, one request at  *)
(* a time                                                                  *)
(***************************************************************************)
TeacherNames == {<<"b">>, <<"B", "o">>, <<" ", "b">>, <<"a">>}

Identities == {<<"b">>, <<"b", "O">>, <<" ", "b">>, <<".", "*">>, <<"(">>, <<>>}

TeacherPasswords ==
  {<<"B", "1", "2", "3", "4">>, <<"b", "1", "2", "3", "4">>,
   <<"A", "1", "2", "3", "4">>, <<" ", "1", "2", "3", "4">>}

NextTeacher ==
  \/ \E n \in TeacherNames : PostDoc("faculty", [name |-> n])
  \/ \E id \in PathIds : DeleteDoc("faculty", id)
  \/ \E e \in Identities, pw \in TeacherPasswords :
       Login([role |-> "teacher", email |-> e, password |-> pw])

SpecTeacher == Init /\ [][NextTeacher]_vars

(***************************************************************************)
(* Requests in flight together, and the seeding, one await at a time       *)
(***************************************************************************)
DemoStudentEmailTyped == <<"S">> \o Tail(demoStudentEmail)

RaceSignupBodies ==
  [role : {"student"}, name : {"Ann"},
   email : {<<"a">>, <<"A">>, DemoStudentEmailTyped}, password : {<<"p">>}]

RaceEntries ==
  [grade : {"10-A"}, subject : Subjects, faculty : FacultyNames,
   classroom : Classrooms, day : Days, time : Times]

AdminLogin == [role |-> "admin", email |-> demoAdminEmail, password |-> demoAdminPassword]

NextSignupRace ==
  \/ SeedFindStudent
  \/ \E salt \in Salts : SeedSaveStudent(salt)
  \/ SeedFindAdmin
  \/ \E salt \in Salts : SeedSaveAdmin(salt)
  \/ \E p \in Procs, body \in RaceSignupBodies : SignupFind(p, body)
  \/ \E p \in Procs, salt \in Salts : SignupSave(p, salt)
  \/ Login(AdminLogin)
  \/ \E body \in RaceSignupBodies, salt \in Salts : SignupGated("admin", body, salt)

SpecSignupRace == Init /\ [][NextSignupRace]_vars

\* the timetable is first written by requests that run alone, then by
\* requests in flight together
NextScheduleRace ==
  \/ /\ \A p \in Procs : reqs[p] = Idle
     /\ \E list \in Lists(RaceEntries) : PostSchedules("10-A", list)
  \/ \E p \in Procs, list \in Lists(RaceEntries) : PostSchedulesDelete(p, "10-A", list)
  \/ \E p \in Procs : PostSchedulesInsert(p)

SpecScheduleRace == Init /\ [][NextScheduleRace]_vars

(***************************************************************************)
(* Every handler, one request at a time                                    *)
(***************************************************************************)
Next == NextSchedules \/ NextSwaps \/ NextCrud \/ NextAuth \/ NextTeacher

Spec == Init /\ [][Next]_vars

(***************************************************************************)
(* Claims about the timetable and the swap requests                        *)
(***************************************************************************)
IdsOfGrade(coll, g) == {i \in DOMAIN coll : coll[i].grade = g}

\* C1: after POST /schedules {grade: g, schedules: list} with nothing
\* interleaved, the store holds exactly Len(list) entries of grade g, none of
\* the entries grade g had before remains, and the entries of every other
\* grade are the ones there were before, unchanged.
C1_ReplaceByGrade ==
  last.op = "POST /schedules" =>
    LET g == last.req.grade
        before == last.pre.schedules
    IN  /\ Cardinality(IdsOfGrade(schedules, g)) = Len(last.req.schedules)
        /\ IdsOfGrade(before, g) \cap DOMAIN schedules = {}
        /\ DOMAIN schedules \ IdsOfGrade(schedules, g)
             = DOMAIN before \ IdsOfGrade(before, g)
        /\ \A i \in DOMAIN before \ IdsOfGrade(before, g) : schedules[i] = before[i]

\* C1 holds of the requests whose entries all carry the grade of the body.
C1_ReplaceByGradeSameGrade ==
  (/\ last.op = "POST /schedules"
   /\ \A k \in DOMAIN last.req.schedules :
        last.req.schedules[k].grade = last.req.grade)
    => C1_ReplaceByGrade

\* the Schedule entries the approved swap names: same grade, day and time,
\* taught by fromFaculty
C2_Named(coll, swap) ==
  {i \in DOMAIN coll :
     <<coll[i].grade, coll[i].day, coll[i].time, coll[i].faculty>>
       = <<swap.grade, swap.day, swap.time, swap.fromFaculty>>}

\* C2: approving an existing swap request sets its status to "approved" and
\* answers without an error; with a non-empty toFaculty and a Schedule entry
\* of the swap's grade, day, time and fromFaculty, one such entry gets
\* faculty = toFaculty and no other entry changes; with no such entry (or an
\* empty toFaculty) no Schedule entry changes.
C2_ApproveSwap ==
  (last.op = "PUT /swaps/:id/approve" /\ last.req.id \in DOMAIN last.pre.swaps) =>
    LET swap == last.pre.swaps[last.req.id]
        before == last.pre.schedules
        named == C2_Named(before, swap)
    IN  /\ swaps[last.req.id].status = "approved"
        /\ last.res.status = 200
        /\ DOMAIN schedules = DOMAIN before
        /\ IF swap.toFaculty # "" /\ named # {}
             THEN \E i \in named :
                    /\ schedules[i] = [before[i] EXCEPT !.faculty = swap.toFaculty]
                    /\ \A j \in DOMAIN before \ {i} : schedules[j] = before[j]
             ELSE schedules = before

\* C2's case: an approval with two entries the swap names and a third it does not
C2_Witness ==
  /\ last.op = "PUT /swaps/:id/approve"
  /\ last.req.id \in DOMAIN last.pre.swaps
  /\ last.pre.swaps[last.req.id].toFaculty # ""
  /\ Cardinality(C2_Named(last.pre.schedules, last.pre.swaps[last.req.id])) = 2
  /\ schedules # last.pre.schedules

\* C2's other case: an approval with no entry the swap names
C2_WitnessNoMatch ==
  /\ last.op = "PUT /swaps/:id/approve"
  /\ last.req.id \in DOMAIN last.pre.swaps
  /\ last.pre.swaps[last.req.id].toFaculty # ""
  /\ last.pre.schedules # Empty
  /\ C2_Named(last.pre.schedules, last.pre.swaps[last.req.id]) = {}
  /\ swaps[last.req.id].status = "approved"

\* C3: once a swap request is "approved" or "rejected", its status never
\* changes again for as long as it is stored.
C3_StatusTerminal ==
  [][\A id \in DOMAIN swaps \cap DOMAIN swaps' :
       swaps[id].status \in {"approved", "rejected"}
         => swaps'[id].status = swaps[id].status]_vars

\* C9: PUT /swaps/:id/reject leaves the Schedule collection as it was, for
\* every swap id, also when the swap had been approved before.
C9_RejectKeepsSchedules ==
  last.op = "PUT /swaps/:id/reject" => schedules = last.pre.schedules

\* C9's case: the rejection of a swap that an approval had applied to the timetable
C9_Witness ==
  /\ last.op = "PUT /swaps/:id/reject"
  /\ last.req.id \in DOMAIN last.pre.swaps
  /\ last.pre.swaps[last.req.id].status = "approved"
  /\ swaps[last.req.id].status = "rejected"
  /\ \E i \in DOMAIN schedules :
       /\ schedules[i].faculty = swaps[last.req.id].toFaculty
       /\ schedules[i].grade = swaps[last.req.id].grade

(***************************************************************************)
(* Claims about DELETE /<entity>/:id                                       *)
(***************************************************************************)
\* the collection of route entity c in a snapshot of the store
SnapshotOf(snap, c) ==
  CASE c = "faculty" -> snap.faculty
    [] c = "schedules" -> snap.schedules
    [] c = "swaps" -> snap.swaps
    [] OTHER -> snap.others[c]

\* a DELETE /<entity>/:id whose id, an ObjectId, was not in the collection
DeleteOfMissing ==
  /\ last.op = "DELETE /:entity/:id"
  /\ IsObjectId(last.req.id)
  /\ last.req.id \notin DOMAIN SnapshotOf(last.pre, last.req.entity)

SignupAccepted ==
  /\ last.op = "POST /signup"
  /\ last.req.role # "" /\ last.req.name # ""
  /\ last.req.email # <<>> /\ last.req.password # <<>>
  /\ last.res.status \notin {401, 403}

\* C4: a signup with every field present and an email that differs
\* case-insensitively from every stored email creates an account, and a
\* login that follows with the same role, the email as submitted and the
\* same password succeeds with a token.
C4_SignupThenLogin ==
  (/\ SignupAccepted
   /\ \A i \in DOMAIN last.pre.users :
        toLowerCase(last.pre.users[i].email) # toLowerCase(last.req.email))
    => /\ last.res.status = 200
       /\ Cardinality(DOMAIN users) = Cardinality(DOMAIN last.pre.users) + 1
       /\ LET login == LoginResponse([role |-> last.req.role,
                                       email |-> last.req.email,
                                       password |-> last.req.password])
          IN  login.status = 200 /\ "token" \in DOMAIN login.body

\* C4 holds of the signups whose email has no upper-case letter (and whose
\* role is not "teacher", which the login never looks up among the users).
C4_SignupThenLoginLowerCase ==
  (/\ last.op = "POST /signup"
   /\ last.req.email = toLowerCase(last.req.email)
   /\ last.req.role # "teacher")
    => C4_SignupThenLogin

\* C5: a signup whose email differs only in letter case from the email of a
\* stored user is rejected with 400 "User already exists" and the stored
\* users stay as they were.
C5_CaseConflict ==
  (/\ SignupAccepted
   /\ \E i \in DOMAIN last.pre.users :
        /\ last.pre.users[i].email # last.req.email
        /\ toLowerCase(last.pre.users[i].email) = toLowerCase(last.req.email))
    => /\ last.res = Status(400, "User already exists")
       /\ users = last.pre.users

\* C5 holds of the second variant, whose signup lower-cases the email.
C5_CaseConflictPublic == variant = VariantPublic => C5_CaseConflict

\* the password the teacher login accepts for a faculty name: the first
\* character left after removing the blanks around the name, upper-cased,
\* then "1234"
C7_Derived(name) ==
  LET inner == {i \in DOMAIN name : name[i] # " "}
  IN  IF inner = {} THEN <<"1", "2", "3", "4">>
      ELSE <<ToUpperChar(name[CHOOSE i \in inner : \A j \in inner : i <= j])>>
             \o <<"1", "2", "3", "4">>

\* C7: a teacher login succeeds only with the password derived from the
\* name of the matched Faculty record; every other teacher login fails with
\* 400 and issues no token.
C7_TeacherPassword ==
  (last.op = "POST /login" /\ last.req.role = "teacher") =>
    IF last.res.status = 200
      THEN /\ \E i \in DOMAIN faculty : faculty[i].name = last.res.body.name
           /\ last.req.password = C7_Derived(last.res.body.name)
      ELSE /\ last.res.status = 400
           /\ "token" \notin DOMAIN last.res.body

\* C7 without the status code: a token is issued only for the derived
\* password of the matched record, and a login that fails issues none.
C7_TeacherPasswordAnyStatus ==
  (last.op = "POST /login" /\ last.req.role = "teacher") =>
    IF last.res.status = 200
      THEN /\ \E i \in DOMAIN faculty : faculty[i].name = last.res.body.name
           /\ last.req.password = C7_Derived(last.res.body.name)
      ELSE "token" \notin DOMAIN last.res.body

(***************************************************************************)
(* Claims about requests in flight together                                *)
(***************************************************************************)
\* C6: in every reachable state, whatever the interleaving of signups and of
\* the seeding, no two stored users have the same email.
C6_UniqueEmails ==
  \A i, j \in DOMAIN users : users[i].email = users[j].email => i = j

\* C6's case: two signups both found the email free, and the save of the
\* second was refused
C6_Witness ==
  /\ last.op = "POST /signup"
  /\ last.res.status = 500
  /\ \E i \in DOMAIN users : users[i].email = NormalizedEmail(last.req.email)

\* C6's other case: a signup took the demo student's email between the
\* seeding's findOne and its save
C6_WitnessSeed == seed.pc = "failed"

\* C10: once two POST /schedules requests for the same grade g, with lists A
\* and B of entries of grade g, have both completed, the entries stored for
\* g are exactly the ones one of the two inserted.
C10_ReplaceAtomic ==
  \A p, q \in Procs :
    (/\ p # q
     /\ reqs[p].pc = "schedules:done" /\ reqs[q].pc = "schedules:done"
     /\ reqs[p].grade = reqs[q].grade
     /\ \A k \in DOMAIN reqs[p].schedules : reqs[p].schedules[k].grade = reqs[p].grade
     /\ \A k \in DOMAIN reqs[q].schedules : reqs[q].schedules[k].grade = reqs[q].grade)
      => IdsOfGrade(schedules, reqs[p].grade) \in {reqs[p].inserted, reqs[q].inserted}

=============================================================================
